---- MODULE Spec2Model ----
(***************************************************************************)
(* Model of the sentiment analyzer CLI (src/main.rs): one run of `main`,   *)
(* from the parsed command line to process exit.                           *)
(*                                                                         *)
(* Strings that the program inspects character by character (the text, the *)
(* file content, the logging level) are sequences of one-character         *)
(* strings.  f64 values are integers in hundredths (0.05 is 5).            *)
(* The VADER scorer is an external library: a call returns any one of the  *)
(* score maps of ScoreMaps.                                                *)
(***************************************************************************)
EXTENDS Integers, Sequences, FiniteSets, TLC

\* ------------------------------------------------------------------ bounds
\* Longest file, in lines, that the model reads.
MaxLines == 3
\* Length of the long text of single-text mode.
LongLen == 58

\* ------------------------------------------------------------- characters
NL == "\n"
CR == "\r"
SP == " "

IsWhitespace(c) == c \in {SP, NL, CR, "\t"}

RECURSIVE trim_start(_)
trim_start(s) ==
    IF s = <<>> THEN s
    ELSE IF IsWhitespace(Head(s)) THEN trim_start(Tail(s)) ELSE s

RECURSIVE trim_end(_)
trim_end(s) ==
    IF s = <<>> THEN s
    ELSE IF IsWhitespace(s[Len(s)]) THEN trim_end(SubSeq(s, 1, Len(s) - 1)) ELSE s

\* str::trim
trim(s) == trim_end(trim_start(s))

\* char::to_lowercase on the letters the model uses
LowerChar(c) ==
    CASE c = "W" -> "w" [] c = "A" -> "a" [] c = "R" -> "r" [] c = "N" -> "n"
      [] c = "E" -> "e" [] c = "O" -> "o" [] c = "I" -> "i" [] c = "F" -> "f"
      [] c = "D" -> "d" [] c = "B" -> "b" [] c = "U" -> "u" [] c = "G" -> "g"
      [] OTHER -> c

\* str::to_lowercase
to_lowercase(s) == [k \in 1..Len(s) |-> LowerChar(s[k])]

\* str::lines: split at "\n", a "\r" before the "\n" is dropped, a last
\* segment that is empty yields no line.
RECURSIVE SplitLines(_, _)
SplitLines(s, cur) ==
    IF s = <<>> THEN (IF cur = <<>> THEN <<>> ELSE <<cur>>)
    ELSE IF Head(s) = NL
         THEN <<(IF cur # <<>> /\ cur[Len(cur)] = CR
                 THEN SubSeq(cur, 1, Len(cur) - 1) ELSE cur)>>
              \o SplitLines(Tail(s), <<>>)
         ELSE SplitLines(Tail(s), Append(cur, Head(s)))

lines(content) == SplitLines(content, <<>>)

\* The 1-indexed positions, in `ls`, of the lines that are not blank.
NonBlankPositions(ls) == {k \in 1..Len(ls) : trim(ls[k]) # <<>>}

\* content.lines().filter(|l| !l.trim().is_empty())
FilterBlank(ls) == SelectSeq(ls, LAMBDA l : trim(l) # <<>>)

\* ----------------------------------------------------------------- Option
None == <<>>
Some(v) == <<v>>

\* ----------------------------------------------------------------- config
FieldNames ==
    {"positive_threshold", "negative_threshold", "include_compound",
     "include_individual", "level", "file"}

\* The built-in configuration the callers of load_config fall back to.
FallbackConfig ==
    [analysis |-> [positive_threshold |-> 5, negative_threshold |-> -5,
                   include_compound |-> TRUE, include_individual |-> FALSE],
     logging  |-> [level |-> <<"i", "n", "f", "o">>, file |-> ""]]

\* A document's fields as a Config value
ConfigOf(f) ==
    [analysis |-> [positive_threshold |-> f["positive_threshold"],
                   negative_threshold |-> f["negative_threshold"],
                   include_compound   |-> f["include_compound"],
                   include_individual |-> f["include_individual"]],
     logging  |-> [level |-> f["level"], file |-> f["file"]]]

\* A loader that fills the fields a document lacks from the defaults.
load_configMut(cf) ==
    IF ~cf.readable THEN [ok |-> FALSE, err |-> "IoError"]
    ELSE IF ~cf.wellFormed THEN [ok |-> FALSE, err |-> "YamlError"]
    ELSE LET d == [positive_threshold |-> 5, negative_threshold |-> -5,
                   include_compound |-> TRUE, include_individual |-> FALSE,
                   level |-> <<"i", "n", "f", "o">>, file |-> ""]
             f == [k \in FieldNames |->
                     IF k \in DOMAIN cf.fields THEN cf.fields[k] ELSE d[k]]
         IN  [ok |-> TRUE, cfg |-> ConfigOf(f)]

\* load_config: read the file, parse it into a complete Config.
load_config(cf) ==
    IF ~cf.readable THEN [ok |-> FALSE, err |-> "IoError"]
    ELSE IF ~cf.wellFormed \/ DOMAIN cf.fields # FieldNames
         THEN [ok |-> FALSE, err |-> "YamlError"]
         ELSE [ok |-> TRUE, cfg |-> ConfigOf(cf.fields)]

\* ---------------------------------------------------------------- logging
\* log::LevelFilter, in its order
LevelNum(l) ==
    CASE l = "Off" -> 0 [] l = "Error" -> 1 [] l = "Warn" -> 2
      [] l = "Info" -> 3 [] l = "Debug" -> 4 [] l = "Trace" -> 5

\* The process-wide logger of the log crate before any logger is set.
NoLogger == [installed |-> FALSE, filter |-> "Off", target |-> "none"]

\* The `match` of init_logging on the lower-cased level
ParseLevel(level) ==
    LET s == to_lowercase(level) IN
    CASE s = <<"d", "e", "b", "u", "g">> -> "Debug"
      [] s = <<"i", "n", "f", "o">>      -> "Info"
      [] s = <<"w", "a", "r", "n">>      -> "Warn"
      [] s = <<"e", "r", "r", "o", "r">> -> "Error"
      [] OTHER                           -> "Info"

\* env_logger::Builder::try_init: fails when a logger is already set.
try_init(lg, filter, target) ==
    IF lg.installed
    THEN [ok |-> FALSE, err |-> "LoggingError", logger |-> lg, set |-> 0]
    ELSE [ok |-> TRUE, err |-> "",
          logger |-> [installed |-> TRUE, filter |-> filter, target |-> target],
          set |-> 1]

\* An init_logging that sets the logger before it opens the log file.
init_loggingMut(lc, lg, openable) ==
    LET r == try_init(lg, ParseLevel(lc.level),
                      IF lc.file = "" THEN "stderr" ELSE "file")
    IN  IF lc.file # "" /\ ~openable
        THEN [r EXCEPT !.ok = FALSE, !.err = "IoError"]
        ELSE r

\* init_logging
init_logging(lc, lg, openable) ==
    LET log_level == ParseLevel(lc.level) IN
    IF lc.file = ""
    THEN try_init(lg, log_level, "stderr")
    ELSE IF ~openable
         THEN [ok |-> FALSE, err |-> "IoError", logger |-> lg, set |-> 0]
         ELSE try_init(lg, log_level, "file")

\* What a log macro (warn!, info!, error!) writes, and where.
LogLine(level, msg) == [via |-> "log", level |-> level, msg |-> msg]

LogEnabled(lg, level) == lg.installed /\ LevelNum(level) <= LevelNum(lg.filter)

LogTo(lg, target, level, msg) ==
    IF LogEnabled(lg, level) /\ lg.target = target
    THEN <<LogLine(level, msg)>> ELSE <<>>

\* ------------------------------------------------------------- the scorer
\* Maps that SentimentIntensityAnalyzer::polarity_scores may return, one of
\* them without the "compound" key.
Compounds == {-5, 0, 5, 10}

ScoreMaps ==
    {[compound |-> c, pos |-> 20, neg |-> 10, neu |-> 70] : c \in Compounds}
    \cup {[pos |-> 30, neg |-> 0, neu |-> 70]}

\* scores.get(key).unwrap_or(&0.0)
GetOrZero(sm, key) == IF key \in DOMAIN sm THEN sm[key] ELSE 0

\* ---------------------------------------------------------- classification
\* A classifier whose comparisons are strict.
classify_sentimentMut(score, config) ==
    IF score > config.positive_threshold THEN "Positive"
    ELSE IF score < config.negative_threshold THEN "Negative"
    ELSE "Neutral"

\* classify_sentiment
classify_sentiment(score, config) ==
    IF score >= config.positive_threshold THEN "Positive"
    ELSE IF score <= config.negative_threshold THEN "Negative"
    ELSE "Neutral"

\* An analyze_text that reports a score that is switched off as zero.
analyze_textMut(text, sm, config) ==
    LET compound == GetOrZero(sm, "compound") IN
    [text |-> text,
     classification |-> classify_sentiment(compound, config),
     scores |->
        [compound |-> IF config.include_compound THEN Some(compound) ELSE Some(0),
         positive |-> IF config.include_individual
                      THEN Some(GetOrZero(sm, "pos")) ELSE Some(0),
         negative |-> IF config.include_individual
                      THEN Some(GetOrZero(sm, "neg")) ELSE Some(0),
         neutral  |-> IF config.include_individual
                      THEN Some(GetOrZero(sm, "neu")) ELSE Some(0)]]

\* analyze_text, given the map `sm` the scorer returned for `text`
analyze_text(text, sm, config) ==
    LET compound == GetOrZero(sm, "compound")
        positive == GetOrZero(sm, "pos")
        negative == GetOrZero(sm, "neg")
        neutral  == GetOrZero(sm, "neu")
        classification == classify_sentiment(compound, config)
    IN  [text |-> text,
         classification |-> classification,
         scores |->
            [compound |-> IF config.include_compound THEN Some(compound) ELSE None,
             positive |-> IF config.include_individual THEN Some(positive) ELSE None,
             negative |-> IF config.include_individual THEN Some(negative) ELSE None,
             neutral  |-> IF config.include_individual THEN Some(neutral) ELSE None]]

\* The println! calls for one result; `n` is the number of the "Line <n>:"
\* heading, 0 for the unnumbered block of single-text mode.  A score is
\* printed only when it is present ({:.4} of a value in hundredths shows the
\* value itself).
PrintBlock(n, res, config) ==
    [kind |-> "block", line |-> n, text |-> res.text,
     classification |-> res.classification,
     compound |-> res.scores.compound,
     positive |-> IF config.include_individual THEN res.scores.positive ELSE None,
     negative |-> IF config.include_individual THEN res.scores.negative ELSE None,
     neutral  |-> IF config.include_individual THEN res.scores.neutral ELSE None]

PrintHeader == [kind |-> "header"]

\* ------------------------------------------------------------ input space
SeqsUpTo(S, n) == UNION {[1..k -> S] : k \in 0..n}

RECURSIVE Join(_)
Join(ls) ==
    IF ls = <<>> THEN <<>>
    ELSE IF Len(ls) = 1 THEN ls[1]
    ELSE ls[1] \o <<NL>> \o Join(Tail(ls))

Texts ==
    {<<>>, <<SP, SP>>, <<"a">>, <<SP, "a", SP>>, [k \in 1..LongLen |-> "a"]}

LineSet == {<<>>, <<SP>>, <<"a">>}

FileContents == {Join(ls) : ls \in SeqsUpTo(LineSet, MaxLines)}

Levels ==
    {<<"W", "A", "R", "N">>, <<"e", "r", "r", "o", "r">>, <<"l", "o", "u", "d">>}

FullDocs ==
    {[positive_threshold |-> p, negative_threshold |-> n,
      include_compound |-> ic, include_individual |-> ii,
      level |-> lv, file |-> f] :
        p \in {5, 10}, n \in {-5, 10}, ic \in BOOLEAN, ii \in BOOLEAN,
        lv \in Levels, f \in {"", "app.log"}}

SampleDoc ==
    [positive_threshold |-> 10, negative_threshold |-> -5,
     include_compound |-> FALSE, include_individual |-> TRUE,
     level |-> <<"e", "r", "r", "o", "r">>, file |-> ""]

PartialDocs == {[k \in FieldNames \ {x} |-> SampleDoc[k]] : x \in FieldNames}

ConfigFiles ==
    {[readable |-> TRUE, wellFormed |-> TRUE, fields |-> d] :
        d \in FullDocs \cup PartialDocs}
    \cup {[readable |-> FALSE, wellFormed |-> FALSE, fields |-> <<>>],
          [readable |-> TRUE, wellFormed |-> FALSE, fields |-> <<>>]}

\* ------------------------------------------------------------------ state
VARIABLES
    pc,           \* position in main / process_text / process_file
    mode,         \* the subcommand: "Analyze" or "AnalyzeFile"
    text,         \* Analyze: the text argument
    fileReadable, \* AnalyzeFile: whether fs::read_to_string(file_path) succeeds
    fileContent,  \* AnalyzeFile: the content of the file
    configFile,   \* what is at config_path
    logOpenable,  \* whether the configured log file can be opened
    config,       \* the local `config`: None before it is bound
    configErr,    \* the error of load_config, when it failed
    loggingErr,   \* the error of init_logging, when it failed
    logger,       \* the process-wide logger of the log crate
    installs,     \* how many times a logger was set
    stderr,       \* lines written to standard error
    logfile,      \* lines written to the log file
    stdout,       \* what println! wrote: a header, result blocks
    filtered,     \* the non-blank lines the `for` loop iterates
    i,            \* the index `enumerate` gives the next line
    scores,       \* the map of the last polarity_scores call
    result,       \* the last SentimentResult
    ret,          \* what process_text / process_file returned
    exitCode      \* the exit code of the process, None while it runs

vars ==
    <<pc, mode, text, fileReadable, fileContent, configFile, logOpenable,
      config, configErr, loggingErr, logger, installs, stderr, logfile,
      stdout, filtered, i, scores, result, ret, exitCode>>

env == <<mode, text, fileReadable, fileContent, configFile, logOpenable>>

\* After Cli::parse: the subcommand and its arguments are known.
Init ==
    /\ pc = "load_config"
    /\ mode \in {"Analyze", "AnalyzeFile"}
    /\ text \in (IF mode = "Analyze" THEN Texts ELSE {<<>>})
    /\ fileReadable \in (IF mode = "AnalyzeFile" THEN BOOLEAN ELSE {FALSE})
    /\ fileContent \in (IF mode = "AnalyzeFile" /\ fileReadable
                        THEN FileContents ELSE {<<>>})
    /\ configFile \in ConfigFiles
    /\ logOpenable \in BOOLEAN
    /\ config = None
    /\ configErr = None
    /\ loggingErr = None
    /\ logger = NoLogger
    /\ installs = 0
    /\ stderr = <<>>
    /\ logfile = <<>>
    /\ stdout = <<>>
    /\ filtered = <<>>
    /\ i = 0
    /\ scores = None
    /\ result = None
    /\ ret = "running"
    /\ exitCode = None

\* A log macro call: the line goes where the logger in place sends it.
Log(level, msg) ==
    /\ stderr' = stderr \o LogTo(logger, "stderr", level, msg)
    /\ logfile' = logfile \o LogTo(logger, "file", level, msg)

\* process_text / process_file: `let config = match load_config(..)`
LoadConfig ==
    /\ pc = "load_config"
    /\ LET r == load_config(configFile) IN
       IF r.ok
       THEN /\ config' = Some(r.cfg)
            /\ configErr' = None
            /\ UNCHANGED <<stderr, logfile>>
       ELSE /\ Log("Warn", "Failed to load config")
            /\ config' = Some(FallbackConfig)
            /\ configErr' = Some(r.err)
    /\ pc' = "init_logging"
    /\ UNCHANGED <<env, loggingErr, logger, installs, stdout, filtered, i,
                   scores, result, ret, exitCode>>

\* process_text / process_file: `if let Err(e) = init_logging(..) { .. }`
InitLogging ==
    /\ pc = "init_logging"
    /\ LET r == init_logging(config[1].logging, logger, logOpenable) IN
       IF r.ok
       THEN /\ logger' = r.logger
            /\ installs' = installs + r.set
            /\ loggingErr' = None
            /\ pc' = "run"
            /\ UNCHANGED <<stderr, ret>>
       ELSE LET f == try_init(r.logger, "Info", "stderr") IN
            /\ stderr' = Append(stderr, [via |-> "eprintln", level |-> "",
                                         msg |-> "Failed to initialize logging"])
            /\ logger' = f.logger
            /\ installs' = installs + r.set + f.set
            /\ loggingErr' = Some(r.err)
            /\ IF f.ok
               THEN pc' = "run" /\ ret' = ret
               ELSE pc' = "main_result" /\ ret' = f.err
    /\ UNCHANGED <<env, config, configErr, logfile, stdout, filtered, i,
                   scores, result, exitCode>>

\* process_text, from info! to Ok(())
AnalyzeText ==
    /\ pc = "run"
    /\ mode = "Analyze"
    /\ Log("Info", "Analyzing text")
    /\ \E sm \in ScoreMaps :
         LET res == analyze_text(text, sm, config[1].analysis) IN
         /\ scores' = Some(sm)
         /\ result' = Some(res)
         /\ stdout' = Append(stdout, PrintBlock(0, res, config[1].analysis))
    /\ ret' = "Ok"
    /\ pc' = "main_result"
    /\ UNCHANGED <<env, config, configErr, loggingErr, logger, installs,
                   filtered, i, exitCode>>

\* process_file, from info! to the header lines
ReadFile ==
    /\ pc = "run"
    /\ mode = "AnalyzeFile"
    /\ Log("Info", "Processing file")
    /\ IF fileReadable
       THEN /\ filtered' = FilterBlank(lines(fileContent))
            /\ stdout' = Append(stdout, PrintHeader)
            /\ pc' = "for_lines"
            /\ ret' = ret
       ELSE /\ ret' = "IoError"
            /\ pc' = "main_result"
            /\ UNCHANGED <<filtered, stdout>>
    /\ i' = 0
    /\ UNCHANGED <<env, config, configErr, loggingErr, logger, installs,
                   scores, result, exitCode>>

\* process_file: one iteration of `for (i, line) in lines.enumerate()`
ForLine ==
    /\ pc = "for_lines"
    /\ i < Len(filtered)
    /\ \E sm \in ScoreMaps :
         LET res == analyze_text(filtered[i + 1], sm, config[1].analysis) IN
         /\ scores' = Some(sm)
         /\ result' = Some(res)
         /\ stdout' = Append(stdout, PrintBlock(i + 1, res, config[1].analysis))
    /\ i' = i + 1
    /\ UNCHANGED <<env, pc, config, configErr, loggingErr, logger, installs,
                   stderr, logfile, filtered, ret, exitCode>>

\* process_file: the iterator is exhausted, Ok(())
ForEnd ==
    /\ pc = "for_lines"
    /\ i = Len(filtered)
    /\ ret' = "Ok"
    /\ pc' = "main_result"
    /\ UNCHANGED <<env, config, configErr, loggingErr, logger, installs,
                   stderr, logfile, stdout, filtered, i, scores, result,
                   exitCode>>

\* main: `if let Err(e) = result { error!(..); exit(1) }`
MainResult ==
    /\ pc = "main_result"
    /\ IF ret # "Ok"
       THEN Log("Error", "Application error") /\ exitCode' = Some(1)
       ELSE UNCHANGED <<stderr, logfile>> /\ exitCode' = Some(0)
    /\ pc' = "done"
    /\ UNCHANGED <<env, config, configErr, loggingErr, logger, installs,
                   stdout, filtered, i, scores, result, ret>>

Next ==
    \/ LoadConfig
    \/ InitLogging
    \/ AnalyzeText
    \/ ReadFile
    \/ ForLine
    \/ ForEnd
    \/ MainResult

Spec == Init /\ [][Next]_vars

\* ----------------------------------------------------------------- claims
Blocks == {stdout[k] : k \in {j \in 1..Len(stdout) : stdout[j].kind = "block"}}

Labels == {"Positive", "Negative", "Neutral"}

\* The configuration at config_path does not load: the file is missing or
\* unreadable, is malformed, or lacks a field of Config.
ConfigFileBad ==
    \/ ~configFile.readable
    \/ ~configFile.wellFormed
    \/ DOMAIN configFile.fields # FieldNames

InputUnreadable == mode = "AnalyzeFile" /\ ~fileReadable

\* C1: with positive_threshold p > negative_threshold n, the label of every
\* analysis is one of the three labels, "Positive" exactly when the compound
\* score c >= p, "Negative" exactly when c <= n and c < p, "Neutral" exactly
\* when neither.
ClassifyContract ==
    result # None =>
        LET c   == GetOrZero(scores[1], "compound")
            p   == config[1].analysis.positive_threshold
            n   == config[1].analysis.negative_threshold
            cls == result[1].classification
        IN  p > n =>
              /\ cls \in Labels
              /\ (cls = "Positive") <=> (c >= p)
              /\ (cls = "Negative") <=> (c <= n /\ c < p)
              /\ (cls = "Neutral") <=> (c < p /\ c > n)

\* C1 witness: a score exactly on the positive threshold, and one exactly on
\* the negative threshold, were classified under ordered thresholds.
ClassifyContractWitness ==
    /\ result # None
    /\ config[1].analysis.positive_threshold > config[1].analysis.negative_threshold
    /\ GetOrZero(scores[1], "compound") = config[1].analysis.negative_threshold
    /\ result[1].classification = "Negative"
    /\ \E b \in Blocks : b.classification = "Positive" /\ b.compound = Some(10)
                         /\ config[1].analysis.positive_threshold = 10

\* C2: in file mode every "Line <n>:" number is the 1-indexed position of
\* that line in the file, blank lines counted; at the end the numbers printed
\* are exactly the positions of the non-blank lines.
LineNumbersMatchFile ==
    mode = "AnalyzeFile" =>
        LET ls == lines(fileContent) IN
        /\ \A b \in Blocks : b.line \in NonBlankPositions(ls) /\ ls[b.line] = b.text
        /\ (pc = "done" /\ ret = "Ok") =>
              {b.line : b \in Blocks} = NonBlankPositions(ls)

\* C3: when the configuration does not load, the run goes on with exactly
\* the default configuration (0.05, -0.05, compound shown, no individual
\* scores), whatever fields the file holds, and it ends with every unit of
\* text analyzed and exit code 0 unless the input file itself is unreadable.
ConfigFallbackDefaults ==
    (ConfigFileBad /\ pc # "load_config") =>
        /\ configErr # None
        /\ config =
             Some([analysis |-> [positive_threshold |-> 5, negative_threshold |-> -5,
                                 include_compound |-> TRUE,
                                 include_individual |-> FALSE],
                   logging |-> [level |-> <<"i", "n", "f", "o">>, file |-> ""]])
        /\ \A b \in Blocks :
              /\ b.compound # None
              /\ b.positive = None /\ b.negative = None /\ b.neutral = None
              /\ (b.classification = "Positive") <=> (b.compound[1] >= 5)
              /\ (b.classification = "Negative") <=> (b.compound[1] <= -5)
        /\ pc = "done" =>
              /\ (exitCode = Some(1)) <=> InputUnreadable
              /\ (exitCode = Some(0)) <=> ~InputUnreadable
              /\ exitCode = Some(0) =>
                    Cardinality(Blocks) =
                       (IF mode = "Analyze" THEN 1
                        ELSE Cardinality(NonBlankPositions(lines(fileContent))))

\* C3 witness: a config file that lacks one field (and sets the others to
\* non-default values) was given, and the run ended with a result printed.
ConfigFallbackWitness ==
    /\ configFile.readable /\ configFile.wellFormed
    /\ DOMAIN configFile.fields = FieldNames \ {"include_compound"}
    /\ pc = "done"
    /\ exitCode = Some(0)
    /\ \E b \in Blocks : b.classification = "Neutral"

\* C4: a text that is empty after trimming is never analyzed and never
\* yields a result block, in single-text mode and in file mode.
BlankTextIsNoOp ==
    /\ \A b \in Blocks : trim(b.text) # <<>>
    /\ result # None => trim(result[1].text) # <<>>

\* C5: when the input file of file mode cannot be read, the run ends with
\* exit code 1, no result block, and a last line on standard error that is
\* the application's error message, whatever the logging configuration.
UnreadableInputFatal ==
    (pc = "done" /\ InputUnreadable) =>
        /\ exitCode = Some(1)
        /\ Blocks = {}
        /\ stderr # <<>>
        /\ stderr[Len(stderr)].msg = "Application error"

\* C6: no text is analyzed under thresholds with
\* positive_threshold <= negative_threshold.
ThresholdsOrderedWhenAnalyzing ==
    (result # None \/ Blocks # {}) =>
        config[1].analysis.positive_threshold > config[1].analysis.negative_threshold

\* C7: the text printed in a result block is never longer than the display
\* maximum (57 characters, the larger of the two the specification names).
DisplayTextBounded ==
    \A b \in Blocks : Len(b.text) <= 57

\* C8: in every SentimentResult, compound is present exactly when
\* include_compound is set, positive, negative and neutral exactly when
\* include_individual is set, a present score is the scorer's value, an
\* absent one is None, and the label is the one the compound score gets
\* whatever the two flags are.
ScoresPresence ==
    result # None =>
        LET r  == result[1].scores
            a  == config[1].analysis
            sm == scores[1]
            c  == GetOrZero(sm, "compound")
        IN  /\ r.compound = (IF a.include_compound THEN Some(c) ELSE None)
            /\ r.positive =
                 (IF a.include_individual THEN Some(GetOrZero(sm, "pos")) ELSE None)
            /\ r.negative =
                 (IF a.include_individual THEN Some(GetOrZero(sm, "neg")) ELSE None)
            /\ r.neutral =
                 (IF a.include_individual THEN Some(GetOrZero(sm, "neu")) ELSE None)
            /\ (r.compound # None) <=> a.include_compound
            /\ \A f \in {r.positive, r.negative, r.neutral} :
                  (f # None) <=> a.include_individual
            /\ result[1].classification =
                 (IF c >= a.positive_threshold THEN "Positive"
                  ELSE IF c <= a.negative_threshold THEN "Negative"
                  ELSE "Neutral")

\* C8 witness: a result built with include_compound off and
\* include_individual on, whose label is not the one of a zero score.
ScoresPresenceWitness ==
    /\ result # None
    /\ ~config[1].analysis.include_compound
    /\ config[1].analysis.include_individual
    /\ result[1].scores.compound = None
    /\ result[1].scores.positive # None
    /\ result[1].classification = "Positive"
    /\ config[1].analysis.positive_threshold > 0

\* C9: when load_config failed, a diagnostic line about it has been written
\* (to standard error or to the log file) by the time the run ends.
ConfigFailureDiagnosed ==
    (pc = "done" /\ configErr # None) =>
        \E k \in 1..Len(stderr \o logfile) :
            (stderr \o logfile)[k].msg = "Failed to load config"

\* C10, as stated: after a failure of init_logging the run ends with the
\* console logger in place and exit code 0, and a logger is set at most once.
LoggingFailureExitsZero ==
    /\ installs <= 1
    /\ (pc = "done" /\ loggingErr # None) =>
          /\ logger = [installed |-> TRUE, filter |-> "Info", target |-> "stderr"]
          /\ exitCode = Some(0)

\* C10, amended: after a failure of init_logging the console logger (level
\* info, standard error) is in place and the run goes on; it ends with exit
\* code 0 unless the input file of file mode is unreadable, and then with
\* exit code 1 for that IoError; a logger is set at most once in a run.
LoggingFailureRecovered ==
    /\ installs <= 1
    /\ logger.installed <=> installs = 1
    /\ (loggingErr # None /\ pc \notin {"load_config", "init_logging"}) =>
          /\ logger = [installed |-> TRUE, filter |-> "Info", target |-> "stderr"]
          /\ installs = 1
          /\ ret \in {"running", "Ok", "IoError"}
          /\ pc = "done" =>
                /\ (exitCode = Some(0)) <=> ~InputUnreadable
                /\ (exitCode = Some(1)) <=> InputUnreadable
                /\ exitCode = Some(0) => Blocks # {} \/ filtered = <<>>

\* C10 witness: the log file could not be opened, and the run ended with
\* exit code 0 and a result printed.
LoggingFailureWitness ==
    /\ loggingErr = Some("IoError")
    /\ pc = "done"
    /\ exitCode = Some(0)
    /\ Blocks # {}
    /\ stderr[1].msg = "Failed to initialize logging"

====
